---- MODULE Spec2Model ----
(***************************************************************************)
(* Model of the code-explorer indexing engine: CodebaseIndex (index.py),   *)
(* the structural parsers (parsers.py), the path utilities (utils.py),     *)
(* the tools that read the index (tools.py) and the context management of  *)
(* the exploring agent (agent.py).                                         *)
(*                                                                         *)
(* A Python str is a sequence of tokens; a token is one punctuation        *)
(* character (".", "/", ":", a quote) or one maximal run of word           *)
(* characters.  A pathlib path is a sequence of parts, each part a str;    *)
(* an absolute path starts with the part <<"/">>, the empty sequence is    *)
(* Path('.').                                                              *)
(***************************************************************************)
EXTENDS Integers, Sequences, FiniteSets, TLC

VARIABLES
  fs,              \* the file system: physical path of a regular file -> content id
  env,             \* import-time flags of parsers.py and the grammars that load
  phase,           \* lifecycle of the index object: "none", "empty", "building", "built"
  root_path,       \* CodebaseIndex.root_path
  parser,          \* CodebaseIndex.parser: [kind, parsers]
  entities,        \* CodebaseIndex.entities: id -> CodeEntity
  nodes,           \* CodebaseIndex.dependency_graph, its nodes
  edges,           \* CodebaseIndex.dependency_graph, its arcs <<u, v>>
  bloom,           \* CodebaseIndex.bloom_filter, the keys added
  embeddings_cache,\* CodebaseIndex.embeddings_cache
  summary_cache,   \* CodebaseIndex.summary_cache: path -> summary
  extensions,      \* build_index: the extensions argument of the running build
  pending,         \* build_index: files of the rglob traversal not yet visited
  file_count,      \* build_index: file_count
  skipped_count,   \* build_index: skipped_count
  builds,          \* number of build_index calls started
  fsops,           \* number of file-system changes made by the environment
  lru,             \* SemanticSearchTool._get_embedding: the lru_cache keys
  context_window,  \* CodebaseExplorerAgent.context_window, a deque(maxlen=5)
  focus_stack,     \* CodebaseExplorerAgent.focus_stack
  issued,          \* history: the queries explore was called with since the last reset
  walk,            \* DependencyAnalysisTool.forward in progress: its locals and call stack
  last             \* the last call and what it returned or raised

vars == <<fs, env, phase, root_path, parser, entities, nodes, edges, bloom,
          embeddings_cache, summary_cache, extensions, pending, file_count,
          skipped_count, builds, fsops, lru, context_window, focus_stack, issued,
          walk, last>>

agentVars == <<context_window, focus_stack, issued>>

indexVars == <<root_path, parser, entities, nodes, edges, bloom,
               embeddings_cache, summary_cache>>

buildVars == <<extensions, pending, file_count, skipped_count>>

\* ------------------------------------------------------------------ bounds

MaxBuilds == 2
MaxFsOps == 1

\* tools.py: @lru_cache(maxsize=128)
LruMaxSize == 128

\* ----------------------------------------------------------------- strings

\* Python's None, where a str or a path is expected, and where a name is
None == <<"None">>

NoName == "None"

StartsWith(s, p) == Len(s) >= Len(p) /\ SubSeq(s, 1, Len(p)) = p

Drop(s, n) == SubSeq(s, n + 1, Len(s))

RECURSIVE LStrip(_, _)
LStrip(s, chars) ==
  IF s # <<>> /\ Head(s) \in chars THEN LStrip(Tail(s), chars) ELSE s

RECURSIVE RStrip(_, _)
RStrip(s, chars) ==
  IF s # <<>> /\ s[Len(s)] \in chars
  THEN RStrip(SubSeq(s, 1, Len(s) - 1), chars)
  ELSE s

Strip(s, chars) == RStrip(LStrip(s, chars), chars)

RECURSIVE Replace(_, _, _)
Replace(s, old, new) ==
  IF s = <<>> THEN <<>>
  ELSE IF StartsWith(s, old) THEN new \o Replace(Drop(s, Len(old)), old, new)
  ELSE <<Head(s)>> \o Replace(Tail(s), old, new)

\* s.split(sep), sep one character
RECURSIVE Split(_, _)
Split(s, sep) ==
  IF s = <<>> THEN << <<>> >>
  ELSE LET rest == Split(Tail(s), sep)
       IN IF Head(s) = sep THEN << <<>> >> \o rest
          ELSE << <<Head(s)>> \o rest[1] >> \o Tail(rest)

RECURSIVE Join(_, _)
Join(parts, sep) ==
  IF parts = <<>> THEN <<>>
  ELSE IF Len(parts) = 1 THEN parts[1]
  ELSE parts[1] \o <<sep>> \o Join(Tail(parts), sep)

\* the members of a sequence that are not in a set, in order
RECURSIVE Filter(_, _)
Filter(seq, drop) ==
  IF seq = <<>> THEN <<>>
  ELSE IF Head(seq) \in drop THEN Filter(Tail(seq), drop)
  ELSE <<Head(seq)>> \o Filter(Tail(seq), drop)

Range(seq) == {seq[i] : i \in 1..Len(seq)}

\* ------------------------------------------------------------------- paths

Anchor == <<"/">>

\* the parts of a str between its separators, without the empty ones and '.'
PathComponents(s) == Filter(Split(s, "/"), {<<>>, <<".">>})

\* Path(s)
PurePath(s) ==
  IF StartsWith(s, <<"/">>) THEN <<Anchor>> \o PathComponents(s)
  ELSE PathComponents(s)

\* p / s
PathJoin(p, s) ==
  IF StartsWith(s, <<"/">>) THEN PurePath(s) ELSE p \o PathComponents(s)

IsAbsolute(p) == p # <<>> /\ p[1] = Anchor

\* p.parent
Parent(p) ==
  IF p = <<>> \/ p = <<Anchor>> THEN p ELSE SubSeq(p, 1, Len(p) - 1)

\* str(p)
PathStr(p) ==
  IF p = <<>> THEN <<".">>
  ELSE IF IsAbsolute(p) THEN <<"/">> \o Join(Tail(p), "/")
  ELSE Join(p, "/")

\* a name that is the whole path
PathNameWhole(p) == PathStr(p)

\* p.name
PathName(p) == IF p = <<>> \/ p = <<Anchor>> THEN <<>> ELSE p[Len(p)]

\* p.suffix: from the last '.' of the name, unless the name starts or ends with it
Suffix(p) ==
  LET name == PathName(p)
      dots == {i \in 1..Len(name) : name[i] = "."}
  IN IF dots = {} THEN <<>>
     ELSE LET i == CHOOSE k \in dots : \A j \in dots : j <= k
          IN IF i = 1 \/ i = Len(name) THEN <<>> ELSE SubSeq(name, i, Len(name))

\* p.relative_to(other) raises ValueError unless other's parts start p's
IsRelativeTo(p, other) == StartsWith(p, other)

RelativeTo(p, other) == Drop(p, Len(other))

\* ---------------------------------------------------------------- registry

\* config.py EXTENSION_TO_LANGUAGE, in the order of the dict
EXTENSION_TO_LANGUAGE ==
  << [ext |-> <<".", "py">>,    lang |-> "python"],
     [ext |-> <<".", "js">>,    lang |-> "javascript"],
     [ext |-> <<".", "jsx">>,   lang |-> "javascript"],
     [ext |-> <<".", "cjs">>,   lang |-> "javascript"],
     [ext |-> <<".", "mjs">>,   lang |-> "javascript"],
     [ext |-> <<".", "ts">>,    lang |-> "typescript"],
     [ext |-> <<".", "tsx">>,   lang |-> "typescript"],
     [ext |-> <<".", "mts">>,   lang |-> "typescript"],
     [ext |-> <<".", "java">>,  lang |-> "java"],
     [ext |-> <<".", "go">>,    lang |-> "go"],
     [ext |-> <<".", "rs">>,    lang |-> "rust"],
     [ext |-> <<".", "c">>,     lang |-> "c"],
     [ext |-> <<".", "cpp">>,   lang |-> "cpp"],
     [ext |-> <<".", "cc">>,    lang |-> "cpp"],
     [ext |-> <<".", "cxx">>,   lang |-> "cpp"],
     [ext |-> <<".", "h">>,     lang |-> "c"],
     [ext |-> <<".", "hpp">>,   lang |-> "cpp"],
     [ext |-> <<".", "cs">>,    lang |-> "c_sharp"],
     [ext |-> <<".", "rb">>,    lang |-> "ruby"],
     [ext |-> <<".", "php">>,   lang |-> "php"],
     [ext |-> <<".", "swift">>, lang |-> "swift"],
     [ext |-> <<".", "kt">>,    lang |-> "kotlin"],
     [ext |-> <<".", "scala">>, lang |-> "scala"],
     [ext |-> <<".", "r">>,     lang |-> "r"],
     [ext |-> <<".", "m">>,     lang |-> "objc"],
     [ext |-> <<".", "mm">>,    lang |-> "objc"] >>

\* list(EXTENSION_TO_LANGUAGE.keys())
ExtensionKeys == [i \in 1..Len(EXTENSION_TO_LANGUAGE) |-> EXTENSION_TO_LANGUAGE[i].ext]

\* EXTENSION_TO_LANGUAGE.get(ext)
LanguageOf(ext) ==
  IF \E i \in 1..Len(EXTENSION_TO_LANGUAGE) : EXTENSION_TO_LANGUAGE[i].ext = ext
  THEN EXTENSION_TO_LANGUAGE[CHOOSE i \in 1..Len(EXTENSION_TO_LANGUAGE) :
                               EXTENSION_TO_LANGUAGE[i].ext = ext].lang
  ELSE NoName

\* ------------------------------------------------------------- skip policy

default_skip ==
  { <<".", "git">>, <<".", "svn">>, <<".", "hg">>,
    <<"node_modules">>, <<"bower_components">>,
    <<"venv">>, <<".", "venv">>, <<"env">>, <<".", "env">>, <<"__pycache__">>,
    <<"target">>, <<"build">>, <<"dist">>, <<"out">>,
    <<".", "pytest_cache">>, <<".", "tox">>, <<".", "coverage">>,
    <<".", "idea">>, <<".", "vscode">>, <<".", "settings">>,
    <<"vendor">>,
    <<".", "DS_Store">>, <<"Thumbs", ".", "db">> }

skip_extensions ==
  { <<".", "pyc">>, <<".", "pyo">>, <<".", "so">>, <<".", "dll">>,
    <<".", "dylib">>, <<".", "exe">>, <<".", "bin">> }

\* a should_skip_path without its test of the suffix
should_skip_path_parts_only(path, skip_patterns) ==
  \E i \in 1..Len(path) :
    \/ StartsWith(path[i], <<".">>) /\ path[i] # <<".">>
    \/ path[i] \in (default_skip \cup skip_patterns)

\* utils.should_skip_path(path, skip_patterns)
should_skip_path(path, skip_patterns) ==
  \/ \E i \in 1..Len(path) :
       \/ StartsWith(path[i], <<".">>) /\ path[i] # <<".">>
       \/ path[i] \in (default_skip \cup skip_patterns)
  \/ Suffix(path) \in skip_extensions

\* ------------------------------------------------------------- file system

Cwd == <<Anchor, <<"w">>>>

\* the physical location a path names: '..' parts resolved, no symbolic links
RECURSIVE Normalize(_, _)
Normalize(done, rest) ==
  IF rest = <<>> THEN done
  ELSE IF Head(rest) = <<".", ".">>
       THEN Normalize(IF done = <<Anchor>> THEN done ELSE Parent(done), Tail(rest))
       ELSE Normalize(Append(done, Head(rest)), Tail(rest))

Phys(p) == IF IsAbsolute(p) THEN Normalize(<<Anchor>>, Tail(p)) ELSE Normalize(Cwd, p)

\* directories the process may not list
Unreadable == { <<Anchor, <<"w">>, <<"locked">>>> }

IsFileIn(files, p) == Phys(p) \in DOMAIN files

\* the directories of the file system: the proper ancestors of its files
Directories(files) == UNION { { SubSeq(f, 1, n) : n \in 1..(Len(f) - 1) } : f \in DOMAIN files }

IsDirIn(files, p) == Phys(p) \in Directories(files)

\* p.exists()
ExistsIn(files, p) == IsFileIn(files, p) \/ IsDirIn(files, p)

\* root.rglob('*'), the regular files of it: every file below a listable root,
\* spelled from the root
RGlobFiles(files, root) ==
  IF ~IsDirIn(files, root) \/ Phys(root) \in Unreadable THEN {}
  ELSE { root \o Drop(f, Len(Phys(root))) :
           f \in { g \in DOMAIN files :
                     Len(g) > Len(Phys(root)) /\ StartsWith(g, Phys(root)) } }

\* ---------------------------------------------------------------- contents

(* A file's content is its encoding and its statements in document order:
     [k |-> "class",      n |-> N]            class N
     [k |-> "def",        n |-> N]            def N():          (Python)
     [k |-> "function",   n |-> N]            function N() {}   (JavaScript)
     [k |-> "import",     m |-> M]            import M          (Python)
     [k |-> "from",       m |-> M, n |-> N]   from M import N   (Python)
     [k |-> "import_str", m |-> M]            import 'M'        (JavaScript)
   parse_raises and imports_raise say whether the grammar-based parse_file and
   extract_imports raise on the text (the regular expressions never do). *)
Stmt(k, n, m) == [k |-> k, n |-> n, m |-> m]

Text(utf8, stmts, parse_raises, imports_raise) ==
  [utf8 |-> utf8, stmts |-> stmts,
   parse_raises |-> parse_raises, imports_raise |-> imports_raise]

ContentOf(c) ==
  CASE c = "py_main"   -> Text(TRUE, << Stmt("import", "", <<"utils">>),
                                        Stmt("import", "", <<"build", ".", "gen">>) >>,
                               FALSE, FALSE)
    [] c = "py_helper" -> Text(TRUE, << Stmt("def", "helper", <<>>) >>, FALSE, FALSE)
    [] c = "py_helper_crlf" -> Text(TRUE, << Stmt("def", "helper", <<>>) >>, FALSE, FALSE)
    [] c = "py_foo"    -> Text(TRUE, << Stmt("class", "Foo", <<>>) >>, FALSE, FALSE)
    [] c = "py_rel"    -> Text(TRUE, << Stmt("def", "run", <<>>),
                                        Stmt("from", "e", <<".", ".", "d">>) >>,
                               FALSE, FALSE)
    [] c = "py_binary" -> Text(FALSE, <<>>, FALSE, FALSE)
    [] c = "py_broken" -> Text(TRUE, << Stmt("class", "Foo", <<>>),
                                        Stmt("import", "", <<"utils">>) >>,
                               TRUE, FALSE)
    [] c = "py_deep"   -> Text(TRUE, << Stmt("def", "helper", <<>>),
                                        Stmt("import", "", <<"utils">>) >>,
                               FALSE, TRUE)
    [] c = "py_app"    -> Text(TRUE, << Stmt("import", "", <<"lib">>),
                                        Stmt("import", "", <<"x", ".", "py">>) >>,
                               FALSE, FALSE)
    [] c = "js_up"     -> Text(TRUE, << Stmt("function", "boot", <<>>),
                                        Stmt("import_str", "", <<".", ".", "/", "x">>),
                                        Stmt("import_str", "", <<".", "/", "lib">>) >>,
                               FALSE, FALSE)
    [] c = "js_widget" -> Text(TRUE, << Stmt("class", "Widget", <<>>) >>, FALSE, FALSE)
    [] c = "py_s"      -> Text(TRUE, << Stmt("import", "", <<"a">>),
                                        Stmt("import", "", <<"u">>) >>, FALSE, FALSE)
    [] c = "py_a"      -> Text(TRUE, << Stmt("import", "", <<"b">>) >>, FALSE, FALSE)
    [] c = "py_a_self" -> Text(TRUE, << Stmt("import", "", <<"a">>),
                                        Stmt("import", "", <<"b">>) >>, FALSE, FALSE)
    [] c = "py_b"      -> Text(TRUE, << Stmt("import", "", <<"u">>) >>, FALSE, FALSE)
    [] c = "py_u"      -> Text(TRUE, << Stmt("import", "", <<"v">>) >>, FALSE, FALSE)
    [] c = "py_v"      -> Text(TRUE, << Stmt("import", "", <<"w">>) >>, FALSE, FALSE)
    [] c = "py_w"      -> Text(TRUE, <<>>, FALSE, FALSE)
    [] c = "py_w_back" -> Text(TRUE, << Stmt("import", "", <<"s">>) >>, FALSE, FALSE)
    [] OTHER           -> Text(TRUE, <<>>, FALSE, FALSE)

\* read_text(encoding='utf-8'): the str of the bytes, every line end '\r\n' read
\* as '\n'; py_helper_crlf holds the lines of py_helper ended by '\r\n'
ReadText(c) == IF c = "py_helper_crlf" THEN "py_helper" ELSE c

\* hashlib.md5(content.encode()).hexdigest()
Md5(c) == <<"md5", c>>

\* ---------------------------------------------------------------- entities

EmptyMap == [x \in {} |-> None]

CodeEntity(path, type, name, ast_hash) ==
  [path |-> path, type |-> type, name |-> name, ast_hash |-> ast_hash]

\* f"{file_path}::{entity_name}"
EntityId(file_path, name) == file_path \o <<":", ":">> \o <<name>>

\* f"external:{imp}"
ExternalId(imp) == <<"external", ":">> \o imp

\* a dict filled from (name, type) pairs in order: a later pair replaces an earlier
\* one with the same id
EntityDict(file_path, defs) ==
  LET ids == { EntityId(file_path, defs[i].n) : i \in 1..Len(defs) }
      lastOf(id) == CHOOSE i \in 1..Len(defs) :
                      /\ EntityId(file_path, defs[i].n) = id
                      /\ \A j \in (i + 1)..Len(defs) : EntityId(file_path, defs[j].n) # id
  IN [id \in ids |-> CodeEntity(file_path, defs[lastOf(id)].type, <<defs[lastOf(id)].n>>, None)]

RECURSIVE SelectStmts(_, _)
SelectStmts(stmts, kinds) ==
  IF stmts = <<>> THEN <<>>
  ELSE IF Head(stmts).k \in kinds THEN <<Head(stmts)>> \o SelectStmts(Tail(stmts), kinds)
  ELSE SelectStmts(Tail(stmts), kinds)

Returned(v) == [raised |-> FALSE, val |-> v]

Raised == [raised |-> TRUE, val |-> None]

\* ----------------------------------------------------------------- parsers

\* parsers.py, the import-time flags
TREE_SITTER_AVAILABLE(e) == e.tree_sitter /\ e.tree_sitter_languages

TREE_SITTER_BASIC(e) == ~TREE_SITTER_AVAILABLE(e) /\ e.tree_sitter

TableLanguages == { EXTENSION_TO_LANGUAGE[i].lang : i \in 1..Len(EXTENSION_TO_LANGUAGE) }

\* TreeSitterParser.__init__: the languages of self.parsers
TreeSitterParserInit(e) ==
  [kind |-> "TreeSitterParser",
   parsers |-> IF TREE_SITTER_AVAILABLE(e) THEN TableLanguages \cap e.grammars ELSE {}]

RegexFallbackParserInit == [kind |-> "RegexFallbackParser", parsers |-> {}]

\* the definition statements of a language's grammar, and the kind of each
TreeSitterDefType(lang, k) ==
  CASE lang = "python" /\ k = "class"            -> "class"
    [] lang = "python" /\ k = "def"              -> "function"
    [] lang = "javascript" /\ k = "class"        -> "class"
    [] lang = "javascript" /\ k = "function"     -> "function"
    [] OTHER                                     -> NoName

RECURSIVE TreeSitterDefs(_, _)
TreeSitterDefs(lang, stmts) ==
  IF stmts = <<>> THEN <<>>
  ELSE LET t == TreeSitterDefType(lang, Head(stmts).k)
       IN (IF t = NoName THEN <<>> ELSE << [n |-> Head(stmts).n, type |-> t] >>)
          \o TreeSitterDefs(lang, Tail(stmts))

\* TreeSitterParser.parse_file
TreeSitterParseFile(prs, text, file_path) ==
  LET lang == LanguageOf(Suffix(PurePath(file_path)))
  IN IF lang = NoName \/ lang \notin prs.parsers THEN Returned(EmptyMap)
     ELSE IF text.parse_raises THEN Raised
     ELSE Returned(EntityDict(file_path, TreeSitterDefs(lang, text.stmts)))

\* _extract_python_imports, _extract_js_imports: the strings of one statement
TreeSitterStmtImports(lang, st) ==
  CASE lang = "python" /\ st.k = "import"          -> << st.m >>
    [] lang = "python" /\ st.k = "from"            -> << st.m, <<st.n>> >>
    [] lang = "javascript" /\ st.k = "import_str"  -> << st.m >>
    [] OTHER                                       -> <<>>

RECURSIVE TreeSitterImports(_, _)
TreeSitterImports(lang, stmts) ==
  IF stmts = <<>> THEN <<>>
  ELSE TreeSitterStmtImports(lang, Head(stmts)) \o TreeSitterImports(lang, Tail(stmts))

\* TreeSitterParser.extract_imports
TreeSitterExtractImports(prs, text, file_path) ==
  LET lang == LanguageOf(Suffix(PurePath(file_path)))
  IN IF lang = NoName \/ lang \notin prs.parsers THEN Returned(<<>>)
     ELSE IF text.imports_raise THEN Raised
     ELSE Returned(TreeSitterImports(lang, text.stmts))

\* RegexFallbackParser.parse_file: the patterns in their order, each over the text
RegexDefsOf(stmts, kinds, type) ==
  LET sel == SelectStmts(stmts, kinds)
  IN [i \in 1..Len(sel) |-> [n |-> sel[i].n, type |-> type]]

RegexParseFile(text, file_path) ==
  Returned(EntityDict(file_path,
             RegexDefsOf(text.stmts, {"class"}, "class")
             \o RegexDefsOf(text.stmts, {"def", "function"}, "function")))

Quoted(s) == <<"'">> \o s \o <<"'">>

\* RegexFallbackParser.extract_imports: r'import\s+([^\s;]+)' finds the module of
\* "import M", the name of "from M import N" and the quoted string of "import 'M'";
\* r'from\s+([^\s]+)\s+import' finds the module of "from M import N"
RegexExtractImports(text, file_path) ==
  LET p1 == SelectStmts(text.stmts, {"import", "from", "import_str"})
      p2 == SelectStmts(text.stmts, {"from"})
  IN Returned([i \in 1..Len(p1) |->
                 CASE p1[i].k = "import" -> p1[i].m
                   [] p1[i].k = "from" -> <<p1[i].n>>
                   [] OTHER -> Quoted(p1[i].m)]
              \o [i \in 1..Len(p2) |-> p2[i].m])

\* self.parser.parse_file(content, relative_path)
ParseFile(prs, text, file_path) ==
  IF prs.kind = "TreeSitterParser" THEN TreeSitterParseFile(prs, text, file_path)
  ELSE RegexParseFile(text, file_path)

\* self.parser.extract_imports(content, relative_path)
ExtractImports(prs, text, file_path) ==
  IF prs.kind = "TreeSitterParser" THEN TreeSitterExtractImports(prs, text, file_path)
  ELSE RegexExtractImports(text, file_path)

\* ---------------------------------------------------------------- resolver

\* the while loop of _resolve_import: one directory up for each leading '../'
RECURSIVE Ascend(_, _)
Ascend(base_dir, import_name) ==
  IF StartsWith(import_name, <<".", ".", "/">>)
  THEN Ascend(Parent(base_dir), Drop(import_name, 3))
  ELSE [base_dir |-> base_dir, import_name |-> import_name]

\* candidates that try the package files before the module file
CandidatesPackageFirst(base, name, ext) ==
  LET package == PathJoin(base, name)
  IN << PathJoin(package, <<"__init__">> \o ext),
        PathJoin(package, <<"index">> \o ext),
        PathJoin(base, name \o ext) >>

\* the three candidates of one extension
Candidates(base, name, ext) ==
  LET package == PathJoin(base, name)
  IN << PathJoin(base, name \o ext),
        PathJoin(package, <<"index">> \o ext),
        PathJoin(package, <<"__init__">> \o ext) >>

\* the two for-loops: the first candidate that exists, extension by extension in
\* the order of the table, is returned relative to the root, and relative_to
\* raises ValueError for one that is not below the root
RECURSIVE FirstExisting(_, _, _, _)
FirstExisting(existing, base, name, exts) ==
  IF exts = <<>> THEN None
  ELSE LET cands == Candidates(base, name, Head(exts))
       IN IF Phys(cands[1]) \in existing THEN cands[1]
          ELSE IF Phys(cands[2]) \in existing THEN cands[2]
          ELSE IF Phys(cands[3]) \in existing THEN cands[3]
          ELSE FirstExisting(existing, base, name, Tail(exts))

FirstCandidate(files, root, base, name) ==
  LET c == FirstExisting(DOMAIN files \cup Directories(files), base, name, ExtensionKeys)
  IN IF c = None THEN Returned(None)
     ELSE IF IsRelativeTo(c, root) THEN Returned(PathStr(RelativeTo(c, root)))
     ELSE Raised

\* CodebaseIndex._resolve_import(import_name, from_file)
resolve_import(files, root, import_name, from_file) ==
  LET name == Strip(import_name, {"'", "\""})
  IN IF StartsWith(name, <<".">>)
     THEN LET up == Ascend(Parent(from_file), name)
          IN FirstCandidate(files, root, up.base_dir, LStrip(up.import_name, {".", "/"}))
     ELSE LET parts == Split(Replace(Replace(name, <<".">>, <<"/">>),
                                     <<":", ":">>, <<"/">>), "/")
          IN FirstCandidate(files, root, root, Join(parts, "/"))

\* ------------------------------------------------------------------- index

\* the fields of the index that _index_file writes
IndexOf(ents, ns, es, bl) == [entities |-> ents, nodes |-> ns, edges |-> es, bloom |-> bl]

\* a loop over the parsed entities that stores them and adds no node and no arc
AddEntitiesOnly(idx, parsed, relative_path) ==
  [idx EXCEPT !.entities = parsed @@ idx.entities]

\* a loop over the parsed entities that keeps an entity it meets again under a
\* second id
AddEntitiesKeepingSeen(idx, parsed, relative_path) ==
  [idx EXCEPT !.entities = parsed @@ idx.entities
                @@ [id \in { old \o <<"#", "2">> : old \in DOMAIN parsed \cap DOMAIN idx.entities }
                      |-> CodeEntity(relative_path, "copy", <<"copy">>, None)],
              !.nodes = idx.nodes \cup DOMAIN parsed
                        \cup (IF parsed = EmptyMap THEN {} ELSE {relative_path}),
              !.edges = idx.edges \cup { <<id, relative_path>> : id \in DOMAIN parsed }]

\* a loop over the parsed entities that draws the arc from the file to the entity
AddEntitiesArcFromFile(idx, parsed, relative_path) ==
  [idx EXCEPT !.entities = parsed @@ idx.entities,
              !.nodes = idx.nodes \cup DOMAIN parsed
                        \cup (IF parsed = EmptyMap THEN {} ELSE {relative_path}),
              !.edges = idx.edges \cup { <<relative_path, id>> : id \in DOMAIN parsed }]

\* the loop over the parsed entities: entity, node and arc to the file
AddEntities(idx, parsed, relative_path) ==
  [idx EXCEPT !.entities = parsed @@ idx.entities,
              !.nodes = idx.nodes \cup DOMAIN parsed
                        \cup (IF parsed = EmptyMap THEN {} ELSE {relative_path}),
              !.edges = idx.edges \cup { <<id, relative_path>> : id \in DOMAIN parsed }]

\* a loop over the imports that takes a resolved file for external unless the file
\* has been indexed already
RECURSIVE AddImportsToIndexedOnly(_, _, _, _, _, _)
AddImportsToIndexedOnly(files, root, idx, relative_path, file_path, imports) ==
  IF imports = <<>> THEN idx
  ELSE LET resolved == resolve_import(files, root, Head(imports), file_path)
       IN IF resolved.raised THEN idx
          ELSE LET target == IF resolved.val # None /\ resolved.val # <<>>
                                /\ resolved.val \in DOMAIN idx.entities
                             THEN resolved.val
                             ELSE ExternalId(Head(imports))
               IN AddImportsToIndexedOnly(files, root,
                             [idx EXCEPT !.nodes = @ \cup {relative_path, target},
                                         !.edges = @ \cup {<<relative_path, target>>}],
                             relative_path, file_path, Tail(imports))

\* the loop over the imports: an arc to the resolved file or to the external node;
\* an import whose resolution raises ends the loop, the arcs added so far stay
RECURSIVE AddImports(_, _, _, _, _, _)
AddImports(files, root, idx, relative_path, file_path, imports) ==
  IF imports = <<>> THEN idx
  ELSE LET resolved == resolve_import(files, root, Head(imports), file_path)
       IN IF resolved.raised THEN idx
          ELSE LET target == IF resolved.val # None /\ resolved.val # <<>>
                             THEN resolved.val
                             ELSE ExternalId(Head(imports))
               IN AddImports(files, root,
                             [idx EXCEPT !.nodes = @ \cup {relative_path, target},
                                         !.edges = @ \cup {<<relative_path, target>>}],
                             relative_path, file_path, Tail(imports))

\* CodebaseIndex._index_file(file_path): every exception ends the body where it is
\* raised and is swallowed by the except clause
index_file(files, root, prs, idx, file_path) ==
  IF ~IsFileIn(files, file_path) \/ ~ContentOf(files[Phys(file_path)]).utf8
  THEN idx
  ELSE
    LET content == ReadText(files[Phys(file_path)])
        text == ContentOf(content)
        relative_path == PathStr(RelativeTo(file_path, root))
        file_entity == CodeEntity(relative_path, "file", PathName(file_path), Md5(content))
        idx1 == [idx EXCEPT !.bloom = @ \cup {relative_path},
                            !.entities = (relative_path :> file_entity) @@ @,
                            !.nodes = @ \cup {relative_path}]
        parsed == ParseFile(prs, text, relative_path)
        idx2 == AddEntities(idx1, parsed.val, relative_path)
        imports == ExtractImports(prs, text, relative_path)
    IN IF parsed.raised THEN idx1
       ELSE IF imports.raised THEN idx2
       ELSE AddImports(files, root, idx2, relative_path, file_path, imports.val)

\* ----------------------------------------------------------------- queries

\* CodebaseIndex.get_entity
get_entity(ents, entity_id) == IF entity_id \in DOMAIN ents THEN ents[entity_id] ELSE None

\* str.lower(), token by token
LowerToken(t) ==
  CASE t = "Foo" -> "foo"
    [] t = "Widget" -> "widget"
    [] t = "README" -> "readme"
    [] t = "Helper" -> "helper"
    [] t = "Analyze" -> "analyze"
    [] OTHER -> t

Lower(s) == [i \in 1..Len(s) |-> LowerToken(s[i])]

\* sub in s
Contains(s, sub) ==
  \E i \in 1..(Len(s) - Len(sub) + 1) : SubSeq(s, i, i + Len(sub) - 1) = sub

\* a search that looks at the names only
search_entities_by_name(ents, query, entity_type) ==
  { id \in DOMAIN ents :
      /\ ~(entity_type # NoName /\ ents[id].type # entity_type)
      /\ Contains(Lower(ents[id].name), Lower(query)) }

\* CodebaseIndex.search_entities: the ids of the entities returned
search_entities(ents, query, entity_type) ==
  { id \in DOMAIN ents :
      /\ ~(entity_type # NoName /\ ents[id].type # entity_type)
      /\ \/ Contains(Lower(ents[id].name), Lower(query))
         \/ Contains(Lower(ents[id].path), Lower(query)) }

\* a get_file_entities that tests the prefix of the id only
get_file_entities_by_prefix(ents, file_path) ==
  { id \in DOMAIN ents : StartsWith(id, file_path \o <<":", ":">>) }

\* CodebaseIndex.get_file_entities: the ids of the entities returned
get_file_entities(ents, file_path) ==
  { id \in DOMAIN ents :
      ents[id].path = file_path \/ StartsWith(id, file_path \o <<":", ":">>) }

\* dependency_graph.successors(node), dependency_graph.predecessors(node)
Neighbors(es, direction, node) ==
  IF direction = "imports" THEN { e[2] : e \in { d \in es : d[1] = node } }
  ELSE { e[1] : e \in { d \in es : d[2] = node } }

\* the members of a set in the order a sequence lists them
InOrder(ord, S) == Filter(ord, Range(ord) \ S)

\* DependencyAnalysisTool.forward, its inner traverse: the state is the visited
\* set, the lines reported (indent, neighbour) and the nodes whose neighbours
\* were listed
RECURSIVE traverse(_, _, _, _, _, _, _)
RECURSIVE traverse_neighbors(_, _, _, _, _, _, _)
traverse(es, direction, depth, ord, st, node, current_depth) ==
  IF current_depth > depth \/ node \in st.visited THEN st
  ELSE traverse_neighbors(es, direction, depth, ord,
                          [st EXCEPT !.visited = @ \cup {node},
                                     !.expanded = Append(@, node)],
                          InOrder(ord, Neighbors(es, direction, node)),
                          current_depth)

traverse_neighbors(es, direction, depth, ord, st, neighbors, current_depth) ==
  IF neighbors = <<>> THEN st
  ELSE traverse_neighbors(es, direction, depth, ord,
         traverse(es, direction, depth, ord,
                  [st EXCEPT !.results = Append(@, <<current_depth, Head(neighbors)>>)],
                  Head(neighbors), current_depth + 1),
         Tail(neighbors), current_depth)

\* DependencyAnalysisTool.forward
analyze_dependencies(ns, es, entity_path, direction, depth, ord) ==
  IF entity_path \notin ns THEN [found |-> FALSE, visited |-> {}, results |-> <<>>,
                                 expanded |-> <<>>]
  ELSE [found |-> TRUE] @@
       traverse(es, direction, depth, ord,
                [visited |-> {}, results |-> <<>>, expanded |-> <<>>], entity_path, 0)

\* ArchitectureMapperTool.forward: the top-level directories with the ids below
\* each, and the entry points
map_architecture(ents) ==
  LET top(id) == Split(id, "/")[1]
      deep == { id \in DOMAIN ents : "/" \in Range(id) }
      patterns == { <<"main", ".">>, <<"__main__">>, <<"app", ".">>, <<"index", ".">>,
                    <<"server", ".">>, <<"cli", ".">> }
  IN [dirs |-> [d \in { top(id) : id \in deep } |-> { id \in deep : top(id) = d }],
      entry_points |-> { id \in DOMAIN ents : \E p \in patterns : Contains(Lower(id), p) }]

\* SmartCodeReaderTool._generate_summary, the summary of a text that parses
Summary(prs, text, content, path) ==
  LET ents == ParseFile(prs, text, path).val
  IN [file |-> path,
      defs |-> { <<ents[id].type, ents[id].name>> : id \in DOMAIN ents },
      imports |-> ExtractImports(prs, text, path).val,
      lines |-> content]

\* SmartCodeReaderTool._extract_structure
Structure(prs, text, path) ==
  LET ents == ParseFile(prs, text, path).val
  IN { <<ents[id].type, ents[id].name>> : id \in DOMAIN ents }

\* SemanticSearchTool._get_embedding is keyed by the text embedded: the query, or
\* f"{entity.name} {entity.content}"
EntityText(e) == <<e.type>> \o e.name

\* ------------------------------------------------------------ environment

W == <<Anchor, <<"w">>>>

Proj == W \o << <<"proj">> >>

At(dir, parts) == dir \o parts

\* files outside every project: a plain file and a directory that cannot be listed
Outside ==
  (At(W, << <<"README">> >>) :> "readme")
  @@ (At(W, << <<"locked">>, <<"s", ".", "py">> >>) :> "py_helper")

TreeA ==
  (At(Proj, << <<"main", ".", "py">> >>) :> "py_main")
  @@ (At(Proj, << <<"utils", ".", "py">> >>) :> "py_helper")
  @@ (At(Proj, << <<"build">>, <<"gen", ".", "py">> >>) :> "py_foo")
  @@ (At(Proj, << <<"bad", ".", "py">> >>) :> "py_binary")
  @@ Outside

TreeB ==
  (At(Proj, << <<"a">>, <<"b">>, <<"c", ".", "py">> >>) :> "py_rel")
  @@ (At(Proj, << <<"a">>, <<"d", ".", "py">> >>) :> "py_foo")
  @@ (At(Proj, << <<"broken", ".", "py">> >>) :> "py_broken")
  @@ (At(Proj, << <<"deep", ".", "py">> >>) :> "py_deep")
  @@ Outside

TreeC ==
  (At(Proj, << <<"up", ".", "js">> >>) :> "js_up")
  @@ (At(Proj, << <<"lib", ".", "js">> >>) :> "js_widget")
  @@ (At(Proj, << <<"app", ".", "py">> >>) :> "py_app")
  @@ (At(Proj, << <<"external", ":", "x", ".", "py">> >>) :> "py_helper")
  @@ (At(W, << <<"x", ".", "js">> >>) :> "js_widget")
  @@ Outside

Trees == {TreeA, TreeB, TreeC}

\* what the environment may write between two builds
Edits ==
  { <<At(Proj, << <<"utils", ".", "py">> >>), "py_foo">>,
    <<At(Proj, << <<"a">>, <<"b">>, <<"d", ".", "py">> >>), "py_helper_crlf">>,
    <<At(Proj, << <<"lib", ".", "js">> >>), "js_up">> }

\* the interpreter's installed packages and the grammars tree_sitter_languages loads
Envs ==
  { [tree_sitter |-> TRUE, tree_sitter_languages |-> TRUE,
     grammars |-> {"python", "javascript"}],
    [tree_sitter |-> TRUE, tree_sitter_languages |-> TRUE, grammars |-> {"python"}],
    [tree_sitter |-> TRUE, tree_sitter_languages |-> FALSE, grammars |-> {}],
    [tree_sitter |-> FALSE, tree_sitter_languages |-> FALSE, grammars |-> {}] }

\* the root paths an index is constructed for: a project directory, a path that
\* does not exist, a regular file, a directory that cannot be listed
Roots ==
  { Proj,
    At(W, << <<"nowhere">> >>),
    At(W, << <<"README">> >>),
    At(W, << <<"locked">> >>) }

\* the extensions argument of build_index: None, or a list
ExtensionArgs == { None, << <<".", "py">> >> }

\* ----------------------------------------------------------------- actions

Call(op, arg) == [op |-> op, arg |-> arg, raised |-> FALSE, val |-> None]

\* no dependency analysis in progress
NoWalk ==
  [active |-> FALSE, entity_path |-> None, direction |-> "imports", depth |-> 0,
   ord |-> <<>>, visited |-> {}, results |-> <<>>, expanded |-> <<>>, stack |-> <<>>]

Init ==
  /\ fs \in Trees
  /\ env \in Envs
  /\ phase = "none"
  /\ root_path = None
  /\ parser = None
  /\ entities = EmptyMap
  /\ nodes = {}
  /\ edges = {}
  /\ bloom = {}
  /\ embeddings_cache = EmptyMap
  /\ summary_cache = EmptyMap
  /\ extensions = None
  /\ pending = {}
  /\ file_count = 0
  /\ skipped_count = 0
  /\ builds = 0
  /\ fsops = 0
  /\ lru = {}
  /\ context_window = <<>>
  /\ focus_stack = <<>>
  /\ issued = <<>>
  /\ walk = NoWalk
  /\ last = Call("import", None)

\* CodebaseIndex.__init__(root_path)
Construct(root) ==
  /\ phase = "none"
  /\ root_path' = root
  /\ entities' = EmptyMap
  /\ nodes' = {}
  /\ edges' = {}
  /\ bloom' = {}
  /\ embeddings_cache' = EmptyMap
  /\ summary_cache' = EmptyMap
  /\ parser' = IF TREE_SITTER_AVAILABLE(env) \/ TREE_SITTER_BASIC(env)
               THEN TreeSitterParserInit(env)
               ELSE RegexFallbackParserInit
  /\ phase' = "empty"
  /\ last' = Call("__init__", root)
  /\ UNCHANGED <<fs, env, buildVars, builds, fsops, lru>>
  /\ UNCHANGED <<agentVars, walk>>

\* build_index(extensions), up to its loop: the traversal is listed
BuildStart(exts) ==
  /\ phase \in {"empty", "built"}
  /\ builds < MaxBuilds
  /\ builds' = builds + 1
  /\ extensions' = IF exts = None THEN ExtensionKeys ELSE exts
  /\ pending' = RGlobFiles(fs, root_path)
  /\ file_count' = 0
  /\ skipped_count' = 0
  /\ phase' = "building"
  /\ last' = Call("build_index", exts)
  /\ UNCHANGED <<fs, env, indexVars, fsops, lru>>
  /\ UNCHANGED <<agentVars, walk>>

\* a loop that a file it cannot decode ends: the files not yet visited are dropped
BuildStepAborting(file_path) ==
  /\ phase = "building"
  /\ file_path \in pending
  /\ LET eligible == IsFileIn(fs, file_path) /\ Suffix(file_path) \in Range(extensions)
         skip == eligible /\ should_skip_path(file_path, {})
         fails == eligible /\ ~skip /\ ~ContentOf(fs[Phys(file_path)]).utf8
     IN /\ pending' = IF fails THEN {} ELSE pending \ {file_path}
        /\ \E idx \in { IF eligible /\ ~skip
                        THEN index_file(fs, root_path, parser,
                                        IndexOf(entities, nodes, edges, bloom), file_path)
                        ELSE IndexOf(entities, nodes, edges, bloom) } :
             /\ entities' = idx.entities
             /\ nodes' = idx.nodes
             /\ edges' = idx.edges
             /\ bloom' = idx.bloom
        /\ skipped_count' = IF skip THEN skipped_count + 1 ELSE skipped_count
        /\ file_count' = IF eligible /\ ~skip THEN file_count + 1 ELSE file_count
  /\ UNCHANGED <<fs, env, phase, root_path, parser, embeddings_cache, summary_cache,
                 extensions, builds, fsops, lru, last>>
  /\ UNCHANGED <<agentVars, walk>>

\* build_index, one turn of its loop, for the file the traversal yields next
BuildStep(file_path) ==
  /\ phase = "building"
  /\ file_path \in pending
  /\ pending' = pending \ {file_path}
  /\ LET eligible == IsFileIn(fs, file_path) /\ Suffix(file_path) \in Range(extensions)
         skip == eligible /\ should_skip_path(file_path, {})
     IN /\ \E idx \in { IF eligible /\ ~skip
                        THEN index_file(fs, root_path, parser,
                                        IndexOf(entities, nodes, edges, bloom), file_path)
                        ELSE IndexOf(entities, nodes, edges, bloom) } :
             /\ entities' = idx.entities
             /\ nodes' = idx.nodes
             /\ edges' = idx.edges
             /\ bloom' = idx.bloom
        /\ skipped_count' = IF skip THEN skipped_count + 1 ELSE skipped_count
        /\ file_count' = IF eligible /\ ~skip THEN file_count + 1 ELSE file_count
  /\ UNCHANGED <<fs, env, phase, root_path, parser, embeddings_cache, summary_cache,
                 extensions, builds, fsops, lru, last>>
  /\ UNCHANGED <<agentVars, walk>>

\* build_index, after its loop
BuildFinish ==
  /\ phase = "building"
  /\ pending = {}
  /\ phase' = "built"
  /\ UNCHANGED <<fs, env, indexVars, buildVars, builds, fsops, lru, last>>
  /\ UNCHANGED <<agentVars, walk>>

\* the environment deletes a file of the project between two builds
FsDelete(f) ==
  /\ phase = "built"
  /\ fsops < MaxFsOps
  /\ f \in DOMAIN fs
  /\ StartsWith(f, Proj)
  /\ fs' = [g \in DOMAIN fs \ {f} |-> fs[g]]
  /\ fsops' = fsops + 1
  /\ UNCHANGED <<env, phase, indexVars, buildVars, builds, lru, last>>
  /\ UNCHANGED <<agentVars, walk>>

\* the environment writes a file of the project between two builds
FsWrite(f, c) ==
  /\ phase = "built"
  /\ fsops < MaxFsOps
  /\ <<f, c>> \in Edits
  /\ f \in DOMAIN fs => fs[f] # c
  /\ fs' = (f :> c) @@ fs
  /\ fsops' = fsops + 1
  /\ UNCHANGED <<env, phase, indexVars, buildVars, builds, lru, last>>
  /\ UNCHANGED <<agentVars, walk>>

\* the arguments the callers of the index pass
EntityArgs ==
  { <<"main", ".", "py">>, <<"utils", ".", "py", ":", ":", "helper">>,
    <<"a", "/", "b", "/", "c", ".", "py">> }

GraphArgs == { <<"main", ".", "py">>, <<"a", "/", "d", ".", "py">> }

QueryArgs == { <<"Foo">>, <<"py">> }

KindArgs == { NoName, "class" }

FileArgs == { <<"utils", ".", "py">>, <<"a", "/", "d", ".", "py">> }

ReadArgs == { <<"utils", ".", "py">>, <<"bad", ".", "py">> }

ModeArgs == { "full", "summary", "structure", "chunk", "other" }

DepthArgs == { 1, 2 }

\* orders in which an adjacency dict may list the neighbours of a node
RECURSIVE SetToSeq(_)
SetToSeq(S) ==
  IF S = {} THEN <<>>
  ELSE LET x == CHOOSE y \in S : TRUE IN <<x>> \o SetToSeq(S \ {x})

Reverse(seq) == [i \in 1..Len(seq) |-> seq[Len(seq) + 1 - i]]

Orders(S) == { SetToSeq(S), Reverse(SetToSeq(S)) }

Done(op, arg, val) == [op |-> op, arg |-> arg, raised |-> FALSE, val |-> val]

Threw(op, arg) == [op |-> op, arg |-> arg, raised |-> TRUE, val |-> None]

\* a get_entity that takes the entity out of the mapping (dict.pop for dict.get)
GetEntityPop(entity_id) ==
  /\ phase = "built"
  /\ last' = Done("get_entity", entity_id, get_entity(entities, entity_id))
  /\ entities' = [id \in DOMAIN entities \ {entity_id} |-> entities[id]]
  /\ UNCHANGED <<fs, env, phase, root_path, parser, nodes, edges, bloom,
                 embeddings_cache, summary_cache, buildVars, builds, fsops, lru>>
  /\ UNCHANGED <<agentVars, walk>>

\* index.get_entity(entity_id)
GetEntity(entity_id) ==
  /\ phase = "built"
  /\ last' = Done("get_entity", entity_id, get_entity(entities, entity_id))
  /\ UNCHANGED <<fs, env, phase, indexVars, buildVars, builds, fsops, lru>>
  /\ UNCHANGED <<agentVars, walk>>

\* index.search_entities(query, entity_type)
SearchEntities(query, entity_type) ==
  /\ phase = "built"
  /\ last' = Done("search_entities", <<query, entity_type>>,
                  search_entities(entities, query, entity_type))
  /\ UNCHANGED <<fs, env, phase, indexVars, buildVars, builds, fsops, lru>>
  /\ UNCHANGED <<agentVars, walk>>

\* index.get_file_entities(file_path)
GetFileEntities(file_path) ==
  /\ phase = "built"
  /\ last' = Done("get_file_entities", file_path, get_file_entities(entities, file_path))
  /\ UNCHANGED <<fs, env, phase, indexVars, buildVars, builds, fsops, lru>>
  /\ UNCHANGED <<agentVars, walk>>

\* DependencyAnalysisTool.forward(entity_path, direction, depth)
AnalyzeDependencies(entity_path, direction, depth) ==
  /\ phase = "built"
  /\ \E ord \in Orders(nodes) :
       last' = Done("analyze_dependencies", <<entity_path, direction, depth>>,
                    analyze_dependencies(nodes, edges, entity_path, direction, depth, ord))
  /\ UNCHANGED <<fs, env, phase, indexVars, buildVars, builds, fsops, lru>>
  /\ UNCHANGED <<agentVars, walk>>

\* ArchitectureMapperTool.forward(focus_area)
MapArchitecture ==
  /\ phase = "built"
  /\ last' = Done("map_architecture", None, map_architecture(entities))
  /\ UNCHANGED <<fs, env, phase, indexVars, buildVars, builds, fsops, lru>>
  /\ UNCHANGED <<agentVars, walk>>

\* SmartCodeReaderTool.forward(path, mode, chunk_size)
ReadCode(path, mode) ==
  /\ phase = "built"
  /\ LET file_path == PathJoin(root_path, path)
         content == ReadText(fs[Phys(file_path)])
         text == ContentOf(content)
         arg == <<path, mode>>
     IN IF ~ExistsIn(fs, file_path)
        THEN /\ last' = Done("read_code", arg, <<"not found">>)
             /\ UNCHANGED summary_cache
        ELSE IF ~IsFileIn(fs, file_path) \/ ~text.utf8
        THEN /\ last' = Threw("read_code", arg)
             /\ UNCHANGED summary_cache
        ELSE IF mode = "full" \/ mode = "chunk"
        THEN /\ last' = Done("read_code", arg, <<mode, content>>)
             /\ UNCHANGED summary_cache
        ELSE IF mode = "summary" /\ path \in DOMAIN summary_cache
        THEN /\ last' = Done("read_code", arg, summary_cache[path])
             /\ UNCHANGED summary_cache
        ELSE IF mode \in {"summary", "structure"} /\ ParseFile(parser, text, path).raised
        THEN /\ last' = Threw("read_code", arg)
             /\ UNCHANGED summary_cache
        ELSE IF mode = "summary" /\ ExtractImports(parser, text, path).raised
        THEN /\ last' = Threw("read_code", arg)
             /\ UNCHANGED summary_cache
        ELSE IF mode = "summary"
        THEN /\ last' = Done("read_code", arg, Summary(parser, text, content, path))
             /\ summary_cache' = (path :> Summary(parser, text, content, path)) @@ summary_cache
        ELSE IF mode = "structure"
        THEN /\ last' = Done("read_code", arg, Structure(parser, text, path))
             /\ UNCHANGED summary_cache
        ELSE /\ last' = Done("read_code", arg, <<"Invalid mode specified">>)
             /\ UNCHANGED summary_cache
  /\ UNCHANGED <<fs, env, phase, root_path, parser, entities, nodes, edges, bloom,
                 embeddings_cache, buildVars, builds, fsops, lru>>
  /\ UNCHANGED <<agentVars, walk>>

\* SemanticSearchTool.forward(query, max_results): the embedding model scores the
\* entities that are not files, the best max_results are returned
SemanticSearch(query, max_results) ==
  /\ phase = "built"
  /\ LET scored == { id \in DOMAIN entities : entities[id].type # "file" }
         texts == {query} \cup { EntityText(entities[id]) : id \in scored }
     IN /\ Cardinality(lru \cup texts) <= LruMaxSize
        /\ lru' = lru \cup texts
        /\ \E best \in SUBSET scored :
             /\ Cardinality(best) = IF Cardinality(scored) < max_results
                                    THEN Cardinality(scored) ELSE max_results
             /\ last' = Done("semantic_search", <<query, max_results>>, best)
  /\ UNCHANGED <<fs, env, phase, indexVars, buildVars, builds, fsops>>
  /\ UNCHANGED <<agentVars, walk>>

\* the arguments of the resolver
ImportArgs == { <<"X">>, <<".", "/", "X">>, <<"utils">> }

FromArgs == { At(Proj, << <<"main", ".", "py">> >>) }

\* a resolver that records the file it found as a node of the graph
ResolveImportRecording(import_name, from_file) ==
  /\ phase \in {"empty", "built"}
  /\ \E found \in { resolve_import(fs, root_path, import_name, from_file) } :
       /\ last' = IF found.raised
                  THEN Threw("_resolve_import", <<import_name, from_file>>)
                  ELSE Done("_resolve_import", <<import_name, from_file>>, found.val)
       /\ nodes' = IF found.raised \/ found.val = None THEN nodes
                   ELSE nodes \cup {found.val, <<"seen">>}
  /\ UNCHANGED <<fs, env, phase, root_path, parser, entities, edges, bloom,
                 embeddings_cache, summary_cache, buildVars, builds, fsops, lru>>
  /\ UNCHANGED <<agentVars, walk>>

\* index._resolve_import(import_name, from_file)
ResolveImport(import_name, from_file) ==
  /\ phase \in {"empty", "built"}
  /\ \E found \in { resolve_import(fs, root_path, import_name, from_file) } :
       last' = IF found.raised
               THEN Threw("_resolve_import", <<import_name, from_file>>)
               ELSE Done("_resolve_import", <<import_name, from_file>>, found.val)
  /\ UNCHANGED <<fs, env, phase, indexVars, buildVars, builds, fsops, lru>>
  /\ UNCHANGED <<agentVars, walk>>

NextIndex ==
  \/ \E root \in Roots : Construct(root)
  \/ \E exts \in ExtensionArgs : BuildStart(exts)
  \/ \E f \in pending : BuildStep(f)
  \/ BuildFinish
  \/ \E f \in DOMAIN fs : FsDelete(f)
  \/ \E e \in Edits : FsWrite(e[1], e[2])

NextUse ==
  \/ \E id \in EntityArgs : GetEntity(id)
  \/ \E q \in QueryArgs, k \in KindArgs : SearchEntities(q, k)
  \/ \E f \in FileArgs : GetFileEntities(f)
  \/ \E id \in GraphArgs, dir \in {"imports", "importers"}, d \in DepthArgs :
       AnalyzeDependencies(id, dir, d)
  \/ MapArchitecture
  \/ \E f \in ReadArgs, m \in ModeArgs : ReadCode(f, m)
  \/ \E n \in {1, 5} : SemanticSearch(<<"helper">>, n)

\* the index under construction, builds and a changing file system
Next == NextIndex

Spec == Init /\ [][Next]_vars

\* the index, built from an unchanging file system, and its callers; the resolver
\* is called on the index as a build left it
NextQuery ==
  \/ \E root \in Roots : Construct(root)
  \/ \E exts \in ExtensionArgs : BuildStart(exts)
  \/ \E f \in pending : BuildStep(f)
  \/ BuildFinish
  \/ NextUse
  \/ /\ last.op \in {"build_index", "_resolve_import"}
     /\ \E n \in ImportArgs, f \in FromArgs : ResolveImport(n, f)

SpecQuery == Init /\ [][NextQuery]_vars

\* ------------------------------------------------------- what a build sees

\* utils.validate_codebase_path(path): the path exists, is a directory and can be read
validate_codebase_path(files, path) ==
  IF ~ExistsIn(files, path) THEN Raised
  ELSE IF ~IsDirIn(files, path) THEN Raised
  ELSE IF Phys(path) \in Unreadable THEN Raised
  ELSE Returned(Phys(path))

\* the test of build_index's loop: a regular file with a listed extension that the
\* skip policy keeps
Indexed(files, exts, file_path) ==
  /\ IsFileIn(files, file_path)
  /\ Suffix(file_path) \in Range(exts)
  /\ ~should_skip_path(file_path, {})

\* the files build_index hands to _index_file
IndexedFiles(files, root, exts) == { f \in RGlobFiles(files, root) : Indexed(files, exts, f) }

\* str(file_path.relative_to(self.root_path))
RelativePath(file_path) == PathStr(RelativeTo(file_path, root_path))

\* the statements of _index_file's try block that raise for a file: read_text,
\* parse_file, extract_imports, _resolve_import
IndexingRaises(files, root, prs, file_path) ==
  LET text == ContentOf(files[Phys(file_path)])
      relative_path == PathStr(RelativeTo(file_path, root))
  IN \/ ~text.utf8
     \/ ParseFile(prs, text, relative_path).raised
     \/ ExtractImports(prs, text, relative_path).raised
     \/ LET imports == ExtractImports(prs, text, relative_path).val
        IN \E i \in 1..Len(imports) :
             resolve_import(files, root, imports[i], file_path).raised

\* build_index on an index that holds nothing: _index_file over the indexed files
RECURSIVE IndexAll(_, _, _, _, _)
IndexAll(files, root, prs, idx, todo) ==
  IF todo = {} THEN idx
  ELSE LET f == CHOOSE x \in todo : TRUE
       IN IndexAll(files, root, prs, index_file(files, root, prs, idx, f), todo \ {f})

FreshIndex(files, root, prs, exts) ==
  IndexAll(files, root, prs, IndexOf(EmptyMap, {}, {}, {}), IndexedFiles(files, root, exts))

\* the first build of an index has ended and the tree is as it was read
FirstBuilt == phase = "built" /\ builds = 1 /\ fsops = 0

\* -------------------------------------------------------------- properties

\* C1: a file whose indexing raises (read, parse, import extraction or import
\* resolution) leaves nothing in the index after the build: no entity with its
\* path, no arc from it or from a definition of it, and no node of its own
FailedFileLeavesNothing ==
  FirstBuilt =>
    \A f \in IndexedFiles(fs, root_path, extensions) :
      IndexingRaises(fs, root_path, parser, f) =>
        /\ \A id \in DOMAIN entities : entities[id].path # RelativePath(f)
        /\ \A e \in edges : /\ e[1] # RelativePath(f)
                            /\ ~StartsWith(e[1], RelativePath(f) \o <<":", ":">>)
        /\ RelativePath(f) \in nodes => \E e \in edges : e[2] = RelativePath(f)

\* C2: after a build both ends of every arc of the graph are keys of the entity
\* mapping or ids that start with 'external:'
EdgeEndsAreEntitiesOrExternal ==
  FirstBuilt =>
    \A e \in edges : \A n \in {e[1], e[2]} :
      n \in DOMAIN entities \/ StartsWith(n, <<"external", ":">>)

\* C3: when a second build ends, the entity mapping and the graph are those of a
\* fresh index built on the tree as it is then
SecondBuildIsFresh ==
  [][(phase = "building" /\ phase' = "built" /\ builds = 2) =>
       LET fresh == FreshIndex(fs', root_path', parser', extensions')
       IN /\ entities' = fresh.entities
          /\ nodes' = fresh.nodes
          /\ edges' = fresh.edges]_vars

\* C4: the raw import '..d' of a/b/c.py resolves to a/d.py when a/d.py exists and
\* a/b/d.py does not
DotDotNameResolvesInParent ==
  LET c == At(Proj, << <<"a">>, <<"b">>, <<"c", ".", "py">> >>)
      d == At(Proj, << <<"a">>, <<"d", ".", "py">> >>)
      bd == At(Proj, << <<"a">>, <<"b">>, <<"d", ".", "py">> >>)
  IN (phase = "built" /\ root_path = Proj
        /\ IsFileIn(fs, c) /\ IsFileIn(fs, d) /\ ~ExistsIn(fs, bd)) =>
       resolve_import(fs, root_path, <<".", ".", "d">>, c)
         = Returned(<<"a", "/", "d", ".", "py">>)

\* C5: after a build every raw import of every file that was read, parsed and
\* scanned has its one outcome arc: to the path it resolves to, and otherwise,
\* also when its resolution leaves the root, to 'external:' + the raw string; an
\* import whose resolution leaves the root does not end the imports after it
EveryImportHasItsOutcomeEdge ==
  FirstBuilt =>
    \A f \in IndexedFiles(fs, root_path, extensions) :
      LET text == ContentOf(fs[Phys(f)])
          imports == ExtractImports(parser, text, RelativePath(f))
      IN (text.utf8 /\ ~ParseFile(parser, text, RelativePath(f)).raised /\ ~imports.raised) =>
           \A i \in 1..Len(imports.val) :
             LET resolved == resolve_import(fs, root_path, imports.val[i], f)
             IN IF ~resolved.raised /\ resolved.val # None
                THEN /\ <<RelativePath(f), resolved.val>> \in edges
                     /\ <<RelativePath(f), ExternalId(imports.val[i])>> \notin edges
                ELSE <<RelativePath(f), ExternalId(imports.val[i])>> \in edges

\* C6: after a build a file whose parse raised still has the arcs of its imports,
\* and a file whose import extraction raised still has its parsed definitions
ParseAndImportsFailApart ==
  FirstBuilt =>
    \A f \in IndexedFiles(fs, root_path, extensions) :
      LET text == ContentOf(fs[Phys(f)])
          parsed == ParseFile(parser, text, RelativePath(f))
          imports == ExtractImports(parser, text, RelativePath(f))
      IN /\ (text.utf8 /\ parsed.raised /\ ~imports.raised) =>
              \A i \in 1..Len(imports.val) :
                \E e \in edges :
                  /\ e[1] = RelativePath(f)
                  /\ \/ e[2] = ExternalId(imports.val[i])
                     \/ e[2] = resolve_import(fs, root_path, imports.val[i], f).val
         /\ (text.utf8 /\ ~parsed.raised /\ imports.raised) =>
              \A id \in DOMAIN parsed.val : id \in DOMAIN entities

\* C7: with tree-sitter installed, a file of a listed language that has no grammar
\* loaded gets the definitions and the imports the regular expressions find
NoGrammarFallsBackToRegex ==
  FirstBuilt =>
    \A f \in IndexedFiles(fs, root_path, extensions) :
      LET text == ContentOf(fs[Phys(f)])
          lang == LanguageOf(Suffix(f))
      IN (env.tree_sitter /\ text.utf8 /\ lang # NoName /\ lang \notin parser.parsers) =>
           /\ \A id \in DOMAIN RegexParseFile(text, RelativePath(f)).val :
                id \in DOMAIN entities
           /\ \A r \in Range(RegexExtractImports(text, RelativePath(f)).val) :
                \E e \in edges : e[1] = RelativePath(f)

\* C8: while an index is built and after, the node 'external:' + r of a raw import
\* r that did not resolve is never the id of an entity
ExternalNodesAreNotEntities ==
  (phase \in {"building", "built"} /\ builds = 1 /\ fsops = 0) =>
    \A f \in IndexedFiles(fs, root_path, extensions) :
      LET text == ContentOf(fs[Phys(f)])
          imports == ExtractImports(parser, text, RelativePath(f))
      IN (text.utf8 /\ ~ParseFile(parser, text, RelativePath(f)).raised /\ ~imports.raised) =>
           \A i \in 1..Len(imports.val) :
             (/\ resolve_import(fs, root_path, imports.val[i], f) = Returned(None)
              /\ <<RelativePath(f), ExternalId(imports.val[i])>> \in edges) =>
               ExternalId(imports.val[i]) \notin DOMAIN entities

\* C9 as stated: a consumer operation, the only step from a built index to a built
\* index while the tree stands still, leaves every field of the index unchanged
ConsumersLeaveIndexUnchanged ==
  [][(phase = "built" /\ phase' = "built") => UNCHANGED indexVars]_vars

\* C9: a consumer operation leaves the root, the parser, the entity mapping, the
\* graph, the bloom filter and the embeddings cache unchanged; the summary cache
\* changes only when code is read in summary mode, by one entry for the path read
ConsumersLeaveIndexButSummaryCache ==
  [][(phase = "built" /\ phase' = "built") =>
       /\ UNCHANGED <<root_path, parser, entities, nodes, edges, bloom, embeddings_cache>>
       /\ summary_cache' # summary_cache =>
            \E path \in ReadArgs :
              /\ last'.op = "read_code"
              /\ last'.arg = <<path, "summary">>
              /\ path \notin DOMAIN summary_cache
              /\ DOMAIN summary_cache' = DOMAIN summary_cache \cup {path}
              /\ \A q \in DOMAIN summary_cache : summary_cache'[q] = summary_cache[q]]_vars

\* a summary was read and is kept in the cache of the index
SummaryWasCached ==
  /\ phase = "built"
  /\ last.op = "read_code"
  /\ ~last.raised
  /\ last.arg[2] = "summary"
  /\ last.arg[1] \in DOMAIN summary_cache
  /\ entities # EmptyMap

\* C10: an index exists only for a root that is a directory that can be read
IndexOnlyForValidRoot ==
  (phase # "none" /\ fsops = 0) => ~validate_codebase_path(fs, root_path).raised

\* ------------------------------------------- functions called on their own

\* directories and names the paths handed to should_skip_path are made of
SkipDirArgs ==
  { <<".", "git">>, <<"project", "/", ".", "venv">>, <<"node_modules", "/", "pkg">>,
    <<"node_modules">>, <<"build">>, <<"venv">>, <<"vendor">>, <<"src">>, <<"lib">>,
    <<".">>, <<"assets">>, <<"Thumbs", ".", "db">>, <<"env">>, <<"dist", "/", "out">>,
    <<"a", "/", "__pycache__">>, <<".", "env">> }

SkipNameArgs ==
  { <<"config">>, <<"lib">>, <<"package">>, <<"index", ".", "js">>,
    <<"output", ".", "js">>, <<"main", ".", "py">>, <<"utils", ".", "js">>,
    <<"mod", ".", "pyc">>, <<"z", ".", "pyo">>, <<"ext", ".", "so">>, <<"x", ".", "dll">>,
    <<"y", ".", "dylib">>, <<"tool", ".", "exe">>, <<"data", ".", "bin">>,
    <<"Thumbs", ".", "db">>, <<".", "DS_Store">> }

\* Path(s) for the strings a caller passes
SkipPathArgs ==
  { PurePath(n) : n \in SkipNameArgs }
  \cup { PurePath(d \o <<"/">> \o n) : d \in SkipDirArgs, n \in SkipNameArgs }

\* should_skip_path(path)
ShouldSkipPath(path) ==
  /\ last' = Done("should_skip_path", path, should_skip_path(path, {}))
  /\ UNCHANGED <<fs, env, phase, indexVars, buildVars, builds, fsops, lru>>
  /\ UNCHANGED <<agentVars, walk>>

\* the functions of the package called directly
NextCall ==
  \/ \E root \in Roots : Construct(root)
  \/ \E path \in SkipPathArgs : ShouldSkipPath(path)

SpecCall == Init /\ [][NextCall]_vars

\* the segment names and the suffixes the skip policy is specified with
ListedSkipNames ==
  { <<".", "git">>, <<".", "svn">>, <<".", "hg">>, <<"node_modules">>,
    <<"bower_components">>, <<"venv">>, <<".", "venv">>, <<"env">>, <<"__pycache__">>,
    <<"target">>, <<"build">>, <<"dist">>, <<"out">>, <<".", "pytest_cache">>,
    <<".", "tox">>, <<".", "coverage">>, <<".", "idea">>, <<".", "vscode">>,
    <<".", "settings">>, <<"vendor">> }

ListedSkipSuffixes ==
  { <<".", "pyc">>, <<".", "pyo">>, <<".", "so">>, <<".", "dll">>,
    <<".", "dylib">>, <<".", "exe">>, <<".", "bin">> }

\* a path the specified policy skips: a segment that starts with '.', a listed
\* segment, or a listed suffix
ListedToSkip(path) ==
  \/ \E i \in 1..Len(path) : path[i][1] = "." /\ path[i] # <<".">>
  \/ \E i \in 1..Len(path) : path[i] \in ListedSkipNames
  \/ Suffix(path) \in ListedSkipSuffixes

\* C11: should_skip_path returns true for every path with a segment that starts
\* with '.', a segment that is a listed directory name, or a listed suffix
SkipPolicySkipsListed ==
  (last.op = "should_skip_path" /\ ListedToSkip(last.arg)) => last.val = TRUE

\* should_skip_path has returned true for '.git/config', 'project/.venv/lib',
\* 'node_modules/pkg/index.js', 'build/output.js' or a compiled file in src
SkippedAnExample ==
  /\ last.op = "should_skip_path"
  /\ last.arg \in { PurePath(<<".", "git", "/", "config">>),
                    PurePath(<<"project", "/", ".", "venv", "/", "lib">>),
                    PurePath(<<"node_modules", "/", "pkg", "/", "index", ".", "js">>),
                    PurePath(<<"build", "/", "output", ".", "js">>),
                    PurePath(<<"src", "/", "mod", ".", "pyc">>) }
  /\ last.val = TRUE

\* C12: should_skip_path returns false for every path with no segment that starts
\* with '.', no listed segment and no listed suffix
SkipPolicySkipsOnlyListed ==
  (last.op = "should_skip_path" /\ ~ListedToSkip(last.arg)) => last.val = FALSE

EntityKeysAreNodes ==
  \A id \in DOMAIN entities : id \in nodes

\* a build is between two files and the mapping holds a file and a definition
MidBuildWithDefinitions ==
  /\ phase = "building"
  /\ pending # {}
  /\ \E id \in DOMAIN entities : entities[id].type = "file"
  /\ \E id \in DOMAIN entities : entities[id].type # "file"

\* C15: after a build, for every file that was read and every raw import of it
\* whose resolution finds a file below the root, the graph has the arc from the
\* file to the root-relative path found
ResolvedImportsAreEdges ==
  FirstBuilt =>
    \A f \in IndexedFiles(fs, root_path, extensions) :
      LET text == ContentOf(fs[Phys(f)])
          imports == ExtractImports(parser, text, RelativePath(f))
      IN (text.utf8 /\ ~imports.raised) =>
           \A i \in 1..Len(imports.val) :
             LET found == resolve_import(fs, root_path, imports.val[i], f)
             IN (~found.raised /\ found.val # None) =>
                  /\ <<RelativePath(f), found.val>> \in edges
                  /\ found.val \in Neighbors(edges, "imports", RelativePath(f))

\* --------------------------------------------- the resolver called on its own

\* files created below the root before an import is resolved
MaxCreated == 2

\* the files an import of X from the root directory may resolve to
CandidateFiles ==
  { At(Proj, << <<"X", ".", "py">> >>),
    At(Proj, << <<"X">>, <<"__init__", ".", "py">> >>),
    At(Proj, << <<"X">>, <<"index", ".", "py">> >>),
    At(Proj, << <<"X", ".", "js">> >>),
    At(Proj, << <<"X">>, <<"index", ".", "js">> >>) }

\* import_name and from_file arguments of _resolve_import
\* the environment creates a file below the root, before the resolver is called
FsCreate(f) ==
  /\ phase = "empty"
  /\ last.op # "_resolve_import"
  /\ fsops < MaxCreated
  /\ f \in CandidateFiles \ DOMAIN fs
  /\ fs' = (f :> "py_helper") @@ fs
  /\ fsops' = fsops + 1
  /\ UNCHANGED <<env, phase, indexVars, buildVars, builds, lru, last>>
  /\ UNCHANGED <<agentVars, walk>>

NextResolve ==
  \/ \E root \in Roots : Construct(root)
  \/ \E f \in CandidateFiles : FsCreate(f)
  \/ \E n \in ImportArgs, f \in FromArgs : ResolveImport(n, f)

SpecResolve == Init /\ [][NextResolve]_vars

\* the candidates of a name in the order they are to be tried: the extensions
\* in the order of the table, and for each extension the module file, the index
\* file of the package, the __init__ file of the package
RankedCandidates(base, name) ==
  [k \in 1..(3 * Len(ExtensionKeys)) |->
     LET ext == ExtensionKeys[((k - 1) \div 3) + 1]
     IN CASE (k - 1) % 3 = 0 -> PathJoin(base, name \o ext)
          [] (k - 1) % 3 = 1 -> PathJoin(PathJoin(base, name), <<"index">> \o ext)
          [] OTHER -> PathJoin(PathJoin(base, name), <<"__init__">> \o ext)]

\* C16: the resolver returns the first candidate that exists, extensions in the
\* order of the table and within an extension name, name/index, name/__init__:
\* X/index.py before X.js, X.py before X/__init__.py
FirstRankedCandidateWins ==
  (last.op = "_resolve_import" /\ ~last.raised /\ root_path = Proj
     /\ last.arg[1] \in { <<"X">>, <<".", "/", "X">> }) =>
    LET ranked == RankedCandidates(Proj, <<"X">>)
        existing == { k \in 1..Len(ranked) : ExistsIn(fs, ranked[k]) }
        first == CHOOSE k \in existing : \A j \in existing : k <= j
    IN /\ existing = {} => last.val = None
       /\ existing # {} => last.val = PathStr(RelativeTo(ranked[first], Proj))
       /\ (/\ IsFileIn(fs, At(Proj, << <<"X">>, <<"index", ".", "py">> >>))
           /\ IsFileIn(fs, At(Proj, << <<"X", ".", "js">> >>))
           /\ ~IsFileIn(fs, At(Proj, << <<"X", ".", "py">> >>)))
            => last.val = <<"X", "/", "index", ".", "py">>
       /\ (/\ IsFileIn(fs, At(Proj, << <<"X", ".", "py">> >>))
           /\ IsFileIn(fs, At(Proj, << <<"X">>, <<"__init__", ".", "py">> >>)))
            => last.val = <<"X", ".", "py">>

\* X was resolved while two of its candidates existed
ResolvedAmongTwoCandidates ==
  /\ last.op = "_resolve_import"
  /\ ~last.raised
  /\ root_path = Proj
  /\ \/ /\ IsFileIn(fs, At(Proj, << <<"X">>, <<"index", ".", "py">> >>))
        /\ IsFileIn(fs, At(Proj, << <<"X", ".", "js">> >>))
        /\ last.val = <<"X", "/", "index", ".", "py">>
     \/ /\ IsFileIn(fs, At(Proj, << <<"X", ".", "py">> >>))
        /\ IsFileIn(fs, At(Proj, << <<"X">>, <<"__init__", ".", "py">> >>))
        /\ last.val = <<"X", ".", "py">>

\* C17: after a build of an unchanged tree every file that was indexed without
\* error has an entity of kind 'file' under its root-relative path, with that
\* path as path and the last part of the path as name
IndexedFilesHaveFileEntities ==
  (phase = "built" /\ fsops = 0) =>
    \A f \in IndexedFiles(fs, root_path, extensions) :
      ~IndexingRaises(fs, root_path, parser, f) =>
        LET rel == Join(SubSeq(f, Len(root_path) + 1, Len(f)), "/")
        IN /\ rel \in DOMAIN entities
           /\ entities[rel].type = "file"
           /\ entities[rel].path = rel
           /\ entities[rel].name = f[Len(f)]

\* a build has ended with the file entity of a file in a subdirectory
FileEntityInSubdirectory ==
  /\ phase = "built"
  /\ fsops = 0
  /\ \E f \in IndexedFiles(fs, root_path, extensions) :
       /\ ~IndexingRaises(fs, root_path, parser, f)
       /\ Len(f) > Len(root_path) + 1
       /\ RelativePath(f) \in DOMAIN entities
       /\ entities[RelativePath(f)].type = "file"

\* C18: when a build ends, two files that were read have equal content hashes
\* if and only if their contents are equal, whatever their paths and names and
\* the build that read them
ContentHashTellsContentsApart ==
  [][(phase = "building" /\ phase' = "built") =>
       \A f, g \in { h \in IndexedFiles(fs', root_path', extensions') :
                       ContentOf(fs'[Phys(h)]).utf8 } :
         (entities'[RelativePath(f)'].ast_hash = entities'[RelativePath(g)'].ast_hash)
           <=> (fs'[Phys(f)] = fs'[Phys(g)])]_vars

\* q occurs in s when the case of the letters is ignored
OccursIgnoringCase(s, q) ==
  \E i \in 0..(Len(s) - Len(q)) :
    \A k \in 1..Len(q) : LowerToken(s[i + k]) = LowerToken(q[k])

\* C19: search_entities returns exactly the entities of the mapping whose name or
\* path holds the query, case ignored, and whose kind is the filter when one is given
SearchReturnsExactlyTheMatches ==
  last.op = "search_entities" =>
    last.val = { id \in DOMAIN entities :
                   /\ last.arg[2] = NoName \/ entities[id].type = last.arg[2]
                   /\ \/ OccursIgnoringCase(entities[id].name, last.arg[1])
                      \/ OccursIgnoringCase(entities[id].path, last.arg[1]) }

\* a search with a kind filter returned some entities and left others out
SearchFoundSomeOfAKind ==
  /\ last.op = "search_entities"
  /\ last.arg[2] = "class"
  /\ last.val # {}
  /\ \E id \in DOMAIN entities \ last.val :
       OccursIgnoringCase(entities[id].path, last.arg[1])

CountsTellOutcomesApart ==
  FirstBuilt =>
    /\ file_count =
         Cardinality({ f \in IndexedFiles(fs, root_path, extensions) :
                         ~IndexingRaises(fs, root_path, parser, f) })
    /\ skipped_count =
         Cardinality({ f \in RGlobFiles(fs, root_path) :
                         /\ Suffix(f) \in Range(extensions)
                         /\ should_skip_path(f, {}) })

\* ------------------------------------- the dependency analysis, step by step

\* the greatest depth the analysis is called with
MaxDepth == 3

\* a project whose files import each other: s imports a and u, a imports b
\* (and, in one variant, itself), b imports u, u imports v, v imports w, and w
\* imports nothing or s
WalkTree(a, w) ==
  (At(Proj, << <<"s", ".", "py">> >>) :> "py_s")
  @@ (At(Proj, << <<"a", ".", "py">> >>) :> a)
  @@ (At(Proj, << <<"b", ".", "py">> >>) :> "py_b")
  @@ (At(Proj, << <<"u", ".", "py">> >>) :> "py_u")
  @@ (At(Proj, << <<"v", ".", "py">> >>) :> "py_v")
  @@ (At(Proj, << <<"w", ".", "py">> >>) :> w)

WalkTrees == { WalkTree(a, w) : a \in {"py_a", "py_a_self"}, w \in {"py_w", "py_w_back"} }

WalkStarts == { <<"s", ".", "py">>, <<"u", ".", "py">>, <<"missing", ".", "py">> }

InitWalk ==
  /\ fs \in WalkTrees
  /\ env = [tree_sitter |-> FALSE, tree_sitter_languages |-> FALSE, grammars |-> {}]
  /\ phase = "none"
  /\ root_path = None
  /\ parser = None
  /\ entities = EmptyMap
  /\ nodes = {}
  /\ edges = {}
  /\ bloom = {}
  /\ embeddings_cache = EmptyMap
  /\ summary_cache = EmptyMap
  /\ extensions = None
  /\ pending = {}
  /\ file_count = 0
  /\ skipped_count = 0
  /\ builds = 0
  /\ fsops = 0
  /\ lru = {}
  /\ context_window = <<>>
  /\ focus_stack = <<>>
  /\ issued = <<>>
  /\ walk = NoWalk
  /\ last = Call("import", None)

\* a call of traverse: about to run its test ("enter"), or in its loop ("loop")
\* with the neighbours not yet taken
Frame(pc, node, current_depth, neighbors) ==
  [pc |-> pc, node |-> node, current_depth |-> current_depth, neighbors |-> neighbors]

Top(stack) == stack[Len(stack)]

Pop(stack) == SubSeq(stack, 1, Len(stack) - 1)

\* DependencyAnalysisTool.forward(entity_path, direction, depth), up to the first
\* call of traverse
Forward(entity_path, direction, depth) ==
  /\ phase = "built"
  /\ ~walk.active
  /\ IF entity_path \notin nodes
     THEN /\ last' = Done("analyze_dependencies", <<entity_path, direction, depth>>,
                          [found |-> FALSE, visited |-> {}, results |-> <<>>,
                           expanded |-> <<>>])
          /\ UNCHANGED walk
     ELSE /\ \E ord \in Orders(nodes) :
               walk' = [active |-> TRUE, entity_path |-> entity_path,
                        direction |-> direction, depth |-> depth, ord |-> ord,
                        visited |-> {}, results |-> <<>>, expanded |-> <<>>,
                        stack |-> << Frame("enter", entity_path, 0, <<>>) >>]
          /\ last' = Call("analyze_dependencies", <<entity_path, direction, depth>>)
  /\ UNCHANGED <<fs, env, phase, indexVars, buildVars, builds, fsops, lru, agentVars>>

\* a traverse that tests the depth only and enters a node it has visited again
TraverseEnterRevisiting ==
  /\ walk.active
  /\ walk.stack # <<>>
  /\ Top(walk.stack).pc = "enter"
  /\ LET top == Top(walk.stack)
     IN IF top.current_depth > walk.depth
        THEN walk' = [walk EXCEPT !.stack = Pop(@)]
        ELSE walk' = [walk EXCEPT
                        !.visited = @ \cup {top.node},
                        !.expanded = Append(@, top.node),
                        !.stack = Append(Pop(@),
                                    Frame("loop", top.node, top.current_depth,
                                          InOrder(walk.ord,
                                                  Neighbors(edges, walk.direction, top.node))))]
  /\ UNCHANGED <<fs, env, phase, indexVars, buildVars, builds, fsops, lru, agentVars, last>>

\* traverse, from its entry to its loop: the test, visited.add and the neighbours
TraverseEnter ==
  /\ walk.active
  /\ walk.stack # <<>>
  /\ Top(walk.stack).pc = "enter"
  /\ LET top == Top(walk.stack)
     IN IF top.current_depth > walk.depth \/ top.node \in walk.visited
        THEN walk' = [walk EXCEPT !.stack = Pop(@)]
        ELSE walk' = [walk EXCEPT
                        !.visited = @ \cup {top.node},
                        !.expanded = Append(@, top.node),
                        !.stack = Append(Pop(@),
                                    Frame("loop", top.node, top.current_depth,
                                          InOrder(walk.ord,
                                                  Neighbors(edges, walk.direction, top.node))))]
  /\ UNCHANGED <<fs, env, phase, indexVars, buildVars, builds, fsops, lru, agentVars, last>>

\* traverse, one turn of its loop: the neighbour is reported and traversed; the
\* call returns when no neighbour is left
TraverseLoop ==
  /\ walk.active
  /\ walk.stack # <<>>
  /\ Top(walk.stack).pc = "loop"
  /\ LET top == Top(walk.stack)
     IN IF top.neighbors = <<>>
        THEN walk' = [walk EXCEPT !.stack = Pop(@)]
        ELSE walk' = [walk EXCEPT
                        !.results = Append(@, <<top.current_depth, Head(top.neighbors)>>),
                        !.stack = Append(Append(Pop(@),
                                           [top EXCEPT !.neighbors = Tail(@)]),
                                    Frame("enter", Head(top.neighbors),
                                          top.current_depth + 1, <<>>))]
  /\ UNCHANGED <<fs, env, phase, indexVars, buildVars, builds, fsops, lru, agentVars, last>>

\* DependencyAnalysisTool.forward, after traverse returned
ForwardReturn ==
  /\ walk.active
  /\ walk.stack = <<>>
  /\ last' = Done("analyze_dependencies", <<walk.entity_path, walk.direction, walk.depth>>,
                  [found |-> TRUE, visited |-> walk.visited, results |-> walk.results,
                   expanded |-> walk.expanded])
  /\ walk' = NoWalk
  /\ UNCHANGED <<fs, env, phase, indexVars, buildVars, builds, fsops, lru, agentVars>>

\* the index of a project, built once, and the dependency analysis called on it
NextWalk ==
  \/ Construct(Proj)
  \/ builds = 0 /\ BuildStart(None)
  \/ \E f \in pending : BuildStep(f)
  \/ BuildFinish
  \/ \E id \in WalkStarts, dir \in {"imports", "importers"}, d \in 0..MaxDepth :
       Forward(id, dir, d)
  \/ TraverseEnter
  \/ TraverseLoop
  \/ ForwardReturn

\* a call of forward runs on: the interpreter executes it to its return
SpecWalk ==
  InitWalk /\ [][NextWalk]_vars /\ WF_vars(TraverseEnter \/ TraverseLoop \/ ForwardReturn)

\* a dependency analysis has returned a report
Analyzed == ~walk.active /\ last.op = "analyze_dependencies"

\* the nodes a report lists
Reported(val) == { val.results[i][2] : i \in 1..Len(val.results) }

\* the nodes that k edges lead to from the nodes of S, k from 1 to d
RECURSIVE Within(_, _, _, _)
Within(es, direction, S, d) ==
  IF d = 0 THEN {}
  ELSE LET next == UNION { Neighbors(es, direction, n) : n \in S }
       IN next \cup Within(es, direction, next, d - 1)

\* C22: a dependency analysis with depth d reports only nodes that at most d
\* edges of its direction lead to from the start entity (with depth 1 the direct
\* neighbours only), and a start entity that is no node of the graph is not found
ReportsOnlyWithinDepth ==
  Analyzed =>
    IF last.arg[1] \in nodes
    THEN /\ last.val.found
         /\ Reported(last.val) \subseteq
              Within(edges, last.arg[2], {last.arg[1]}, last.arg[3])
    ELSE ~last.val.found

\* C28: a dependency analysis with depth d reports every node that at most d
\* edges of its direction lead to from the start entity
ReportsAllWithinDepth ==
  (Analyzed /\ last.arg[1] \in nodes) =>
    Within(edges, last.arg[2], {last.arg[1]}, last.arg[3]) \subseteq Reported(last.val)

\* C29: a dependency analysis that started returns, whatever cycles and loops the
\* graph has, and no node has its neighbours listed twice in one call
WalkReturnsAndExpandsOnce ==
  /\ [](\A i, j \in 1..Len(walk.expanded) :
          walk.expanded[i] = walk.expanded[j] => i = j)
  /\ (walk.active ~> ~walk.active)

\* an analysis went round a cycle back to its start, in a graph with a loop
WalkedRoundACycle ==
  /\ Analyzed
  /\ last.arg[1] \in nodes
  /\ last.arg[1] \in Reported(last.val)
  /\ \E n \in nodes : <<n, n>> \in edges

\* ------------------------------------------------------ the exploring agent

\* deque(maxlen=5)
ContextMaxLen == 5

\* the most queries issued between two resets
MaxQueries == 6

\* the query arguments of explore
QueryTexts ==
  { <<"Analyze", " ", "main", ".", "py">>, <<"list", " ", "every", " ", "file">> }

\* CodebaseExplorerAgent._needs_detailed_analysis(query)
needs_detailed_analysis(query) ==
  \E keyword \in { <<"deep", " ", "dive">>, <<"detailed">>, <<"comprehensive">>,
                   <<"all">>, <<"every">>, <<"complete">> } :
    Contains(Lower(query), keyword)

\* CodebaseExplorerAgent._extract_focus_area(query): the entity ids the loop over the
\* mapping may return, none when no id occurs in the query
extract_focus_area(ents, query) ==
  { entity_path \in DOMAIN ents : Contains(Lower(query), Lower(entity_path)) }

\* a list for the deque: append drops nothing
DequeAppendUnbounded(window, x) == Append(window, x)

\* deque(maxlen=5).append(x): a full deque drops its oldest item
DequeAppend(window, x) ==
  IF Len(window) = ContextMaxLen THEN Append(Tail(window), x) ELSE Append(window, x)

\* CodebaseExplorerAgent.explore(query, use_subagent); the run of the agent or of
\* the subagent returns or raises
Explore(query, use_subagent) ==
  /\ phase = "built"
  /\ Len(issued) < MaxQueries
  /\ issued' = Append(issued, query)
  /\ context_window' = DequeAppend(context_window, query)
  /\ \E returns \in BOOLEAN :
       /\ last' = IF returns THEN Done("explore", <<query, use_subagent>>, <<"result">>)
                  ELSE Threw("explore", <<query, use_subagent>>)
       /\ IF use_subagent /\ needs_detailed_analysis(query)
          THEN UNCHANGED focus_stack
          ELSE IF returns /\ (\/ Contains(Lower(query), <<"analyze">>)
                              \/ Contains(Lower(query), <<"explore">>))
               THEN \/ /\ extract_focus_area(entities, query) = {}
                       /\ UNCHANGED focus_stack
                    \/ \E focus_area \in extract_focus_area(entities, query) :
                         focus_stack' = Append(focus_stack, focus_area)
               ELSE UNCHANGED focus_stack
  /\ UNCHANGED <<fs, env, phase, indexVars, buildVars, builds, fsops, lru, walk>>

\* CodebaseExplorerAgent.reset_context()
ResetContext ==
  /\ phase = "built"
  /\ context_window' = <<>>
  /\ focus_stack' = <<>>
  /\ issued' = <<>>
  /\ last' = Done("reset_context", None, None)
  /\ UNCHANGED <<fs, env, phase, indexVars, buildVars, builds, fsops, lru, walk>>

\* the agent: its index is constructed and built once, then it is asked
NextAgent ==
  \/ Construct(Proj)
  \/ builds = 0 /\ BuildStart(None)
  \/ \E f \in pending : BuildStep(f)
  \/ BuildFinish
  \/ \E q \in QueryTexts, sub \in BOOLEAN : Explore(q, sub)
  \/ ResetContext

SpecAgent == Init /\ [][NextAgent]_vars

\* C23: right after reset_context the context window and the focus stack are
\* empty, and the context window always holds the queries issued since the last
\* reset, the 5 most recent ones when there are more, in the order of issue
ContextHoldsRecentQueries ==
  /\ last.op = "reset_context" => context_window = <<>> /\ focus_stack = <<>>
  /\ Len(context_window) <= 5
  /\ context_window =
       SubSeq(issued, Len(issued) - Len(context_window) + 1, Len(issued))
  /\ Len(context_window) < 5 => context_window = issued

\* more than five queries were issued, one of them pushed a focus area and the
\* last one was handed to the subagent
WindowFullWithFocus ==
  /\ Len(issued) > 5
  /\ focus_stack # <<>>
  /\ last.op = "explore"
  /\ last.arg[2]
  /\ needs_detailed_analysis(last.arg[1])

DefinitionsPointToTheirFile ==
  \A id \in DOMAIN entities :
    entities[id].type # "file" =>
      /\ id = entities[id].path \o <<":", ":">> \o entities[id].name
      /\ <<id, entities[id].path>> \in edges
      /\ entities[id].path \in DOMAIN entities
      /\ \A e \in edges : e[1] = id => e[2] = entities[id].path

\* a second build has ended with a definition of a file that is no longer there
DefinitionOfDeletedFileKept ==
  /\ phase = "built"
  /\ builds = 2
  /\ \E id \in DOMAIN entities :
       /\ entities[id].type # "file"
       /\ ~IsFileIn(fs, PathJoin(root_path, entities[id].path))

\* ------------------------------------------- one tree under several roots

\* the same three files below a directory
TwinTree(base) ==
  (At(base, << <<"main", ".", "py">> >>) :> "py_main")
  @@ (At(base, << <<"utils", ".", "py">> >>) :> "py_helper")
  @@ (At(base, << <<"a">>, <<"d", ".", "py">> >>) :> "py_foo")

\* roots with that tree: a project directory, the same directory named from the
\* working directory through '..', and copies below directories named 'build'
\* and '.cache'
TwinRoots ==
  { Proj,
    << <<".", ".">>, <<"w">>, <<"proj">> >>,
    At(W, << <<"build">>, <<"proj">> >>),
    At(W, << <<".", "cache">>, <<"proj">> >>) }

InitRoots ==
  /\ fs = TwinTree(Proj) @@ TwinTree(At(W, << <<"build">>, <<"proj">> >>))
            @@ TwinTree(At(W, << <<".", "cache">>, <<"proj">> >>))
  /\ env \in Envs
  /\ phase = "none"
  /\ root_path = None
  /\ parser = None
  /\ entities = EmptyMap
  /\ nodes = {}
  /\ edges = {}
  /\ bloom = {}
  /\ embeddings_cache = EmptyMap
  /\ summary_cache = EmptyMap
  /\ extensions = None
  /\ pending = {}
  /\ file_count = 0
  /\ skipped_count = 0
  /\ builds = 0
  /\ fsops = 0
  /\ lru = {}
  /\ context_window = <<>>
  /\ focus_stack = <<>>
  /\ issued = <<>>
  /\ walk = NoWalk
  /\ last = Call("import", None)

\* an index constructed for one of the roots and built once
NextRoots ==
  \/ \E root \in TwinRoots : Construct(root)
  \/ \E exts \in ExtensionArgs : builds = 0 /\ BuildStart(exts)
  \/ \E f \in pending : BuildStep(f)
  \/ BuildFinish

SpecRoots == InitRoots /\ [][NextRoots]_vars

\* C27: which files a build indexes depends on their paths relative to the root
\* only: a build ends with the entity ids that a build from any other root with
\* the same tree ends with, whatever the segments of the root path are
SameTreeSameEntityIds ==
  FirstBuilt =>
    \A root \in TwinRoots :
      DOMAIN FreshIndex(fs, root, parser, extensions).entities = DOMAIN entities

\* C30: a second build with every registered extension, on a tree that no file
\* change touched, ends with the entity mapping and the graph (nodes and arcs,
\* each arc once) that a first build of that tree ends with
SecondBuildOfSameTreeChangesNothing ==
  (phase = "built" /\ builds = 2 /\ fsops = 0 /\ extensions = ExtensionKeys) =>
    LET first == FreshIndex(fs, root_path, parser, ExtensionKeys)
    IN /\ entities = first.entities
       /\ nodes = first.nodes
       /\ edges = first.edges

\* a second build of an unchanged tree has ended with definitions and import arcs
RebuiltUnchangedTree ==
  /\ phase = "built"
  /\ builds = 2
  /\ fsops = 0
  /\ extensions = ExtensionKeys
  /\ \E id \in DOMAIN entities : entities[id].type # "file"
  /\ \E e \in edges : e[1] \in DOMAIN entities /\ entities[e[1]].type = "file"

====
